---- MODULE Spec2Model ----
(***************************************************************************)
(* Serial number arithmetic (RFC 1982) of src/lib.rs: SerialNumber<T> for  *)
(* T in u8, u16, u32, u64, with wrapping addition, value equality and the  *)
(* partial order partial_cmp.                                              *)
(*                                                                         *)
(* A machine integer of width W is a little-endian sequence of W/8 limbs   *)
(* in 0..255, so that the 32 and 64 bit instantiations are modelled with   *)
(* their real width.  The mathematical integers the claims speak about are *)
(* kept apart from the machine integers, as records [hi, lo] that denote   *)
(* hi * 2^(W-8) + lo (see Num below).                                      *)
(***************************************************************************)
EXTENDS Integers, Sequences, FiniteSets, TLC

\* ------------------------------------------------------------------ bounds
\* largest offset |lo| of a sampled input from a multiple of 2^(W-8), W > 8
MaxOff == 1
\* largest number of compound additions in one run of SpecAssign
MaxSteps == 2

\* uint_impl!(u8, u8, 8); ... uint_impl!(u64, u64, 64);
Widths == {8, 16, 32, 64}

\* ------------------------------------------------- mathematical integers
\* [hi |-> h, lo |-> l] denotes h * 2^(W-8) + l.  For W = 8 lo is always 0
\* and hi is the integer itself; for W > 8, |lo| stays far below 2^(W-9),
\* so the notation is unique and the order is the lexicographic one.
Num(h, l) == [hi |-> h, lo |-> l]
NumZero == Num(0, 0)
\* 2^(W-1)
NumHalf == Num(128, 0)
\* 2^W
NumModulus == Num(256, 0)
NumAdd(p, q) == Num(p.hi + q.hi, p.lo + q.lo)
NumSub(p, q) == Num(p.hi - q.hi, p.lo - q.lo)
NumLt(p, q) == p.hi < q.hi \/ (p.hi = q.hi /\ p.lo < q.lo)
\* n mod 2^W, for n >= 0
NumMod(n) ==
    LET h == n.hi % 256
    IN  IF h = 0 /\ n.lo < 0 THEN Num(256, n.lo) ELSE Num(h, n.lo)
\* 2^W - 1
NumMax == Num(256, -1)
InRange(n) == ~NumLt(n, NumZero) /\ NumLt(n, NumModulus)

\* the high parts sampled for the widths above 8 bits
HiSamples == {0, 1, 64, 100, 127, 128, 129, 192, 200, 255, 256}
\* the inputs of width W: every 8 bit integer, and for the wider types the
\* integers within MaxOff of a sampled multiple of 2^(W-8)
Inputs(W) ==
    IF W = 8
    THEN {Num(h, 0) : h \in 0..255}
    ELSE {n \in {Num(h, l) : h \in HiSamples, l \in (0 - MaxOff)..MaxOff} : InRange(n)}

\* ------------------------------------------------------ machine integers
Limbs(W) == W \div 8
Fill(k, d) == [i \in 1..k |-> d]
\* the value of type $T that holds the integer n, 0 <= n < 2^W
Enc(n, W) ==
    IF W = 8 THEN <<n.hi>>
    ELSE IF n.lo >= 0
         THEN <<n.lo>> \o Fill(Limbs(W) - 2, 0) \o <<n.hi>>
         ELSE <<256 + n.lo>> \o Fill(Limbs(W) - 2, 255) \o <<n.hi - 1>>
\* a value of type $T: the right number of limbs, each a byte
IsUint(u, W) == Len(u) = Limbs(W) /\ \A i \in 1..Len(u) : u[i] \in 0..255

RECURSIVE AddCarry(_, _, _)
AddCarry(u, v, carry) ==
    IF u = <<>> THEN <<>>
    ELSE LET sum == Head(u) + Head(v) + carry
         IN  <<sum % 256>> \o AddCarry(Tail(u), Tail(v), sum \div 256)
RECURSIVE CarryOut(_, _, _)
CarryOut(u, v, carry) ==
    IF u = <<>> THEN carry
    ELSE CarryOut(Tail(u), Tail(v), (Head(u) + Head(v) + carry) \div 256)
\* variant: u.saturating_add(v), which stops at the maximum
SaturatingAdd(u, v) ==
    IF CarryOut(u, v, 0) = 1 THEN [i \in 1..Len(u) |-> 255] ELSE AddCarry(u, v, 0)
\* (Wrapping(u) + Wrapping(v)).0: the carry out of the top limb is dropped
WrappingAdd(u, v) == AddCarry(u, v, 0)

RECURSIVE UintLt(_, _)
\* u < v on $T
UintLt(u, v) ==
    LET n == Len(u)
    IN  IF n = 0 THEN FALSE
        ELSE IF u[n] # v[n] THEN u[n] < v[n]
        ELSE UintLt(SubSeq(u, 1, n - 1), SubSeq(v, 1, n - 1))
\* u > v on $T
UintGt(u, v) == UintLt(v, u)

RECURSIVE SubBorrow(_, _, _)
SubBorrow(u, v, borrow) ==
    IF u = <<>> THEN <<>>
    ELSE LET diff == Head(u) - Head(v) - borrow
         IN  <<diff % 256>> \o SubBorrow(Tail(u), Tail(v), IF diff < 0 THEN 1 ELSE 0)
\* u - v on $T: it overflows when u < v (a panic where overflow checks are
\* compiled in, the wrapped difference where they are not)
UintSub(u, v) == [val |-> SubBorrow(u, v, 0), overflow |-> UintLt(u, v)]

\* the limbs of u moved up by n bits, the bits moved out of the top dropped
ShlBits(u, n) ==
    LET q == n \div 8
        r == n % 8
        limb(i) == IF i >= 1 THEN u[i] ELSE 0
    IN  [i \in 1..Len(u) |->
            ((limb(i - q) * 2^r) % 256) + ((limb(i - q - 1) * 2^r) \div 256)]
\* u << n on $T: it overflows when n is not below the width (a panic where
\* overflow checks are compiled in, a shift by n mod W where they are not)
UintShl(u, n, W) == [val |-> ShlBits(u, n % W), overflow |-> n >= W]
\* the literal 1 of type $T
One(W) == <<1>> \o Fill(Limbs(W) - 1, 0)

\* short-circuit && and || over checked values [val, overflow]: the right
\* operand is evaluated, and can overflow, only when the left one asks for it
\* variant: & in place of &&, both operands always evaluated
AndAlways(p, q) == [val |-> p.val /\ q.val, overflow |-> p.overflow \/ q.overflow]
AndThen(p, q) ==
    IF p.val THEN [val |-> q.val, overflow |-> p.overflow \/ q.overflow] ELSE p
OrElse(p, q) ==
    IF p.val THEN p ELSE [val |-> q.val, overflow |-> p.overflow \/ q.overflow]
Checked(v) == [val |-> v, overflow |-> FALSE]

\* ------------------------------------------------------------ the library
\* pub struct SerialNumber<T>(pub T)
SerialNumber(n) == <<n>>
\* Option<Ordering>
Some(o) == <<o>>
None == <<>>
\* Ordering::reverse
reverse(o) ==
    CASE o = "Less" -> "Greater"
      [] o = "Greater" -> "Less"
      [] OTHER -> o
\* the outcome of a panic
Panic == <<"panic", "arithmetic overflow">>

\* variant: 1 << ($x-2), a quarter of the counter space
uint_quarter(BITS) == UintShl(One(BITS), BITS - 2, BITS)
\* macro_rules! uint_half: 1 << ($x-1)
uint_half(BITS) == UintShl(One(BITS), BITS - 1, BITS)

\* From<$T> for SerialNumber<$T>
from(number) == SerialNumber(number)
\* From<SerialNumber<$T>> for $T
into(number) == number[1]

\* Add for SerialNumber<$T>
add(self, other) == SerialNumber(WrappingAdd(self[1], other[1]))
\* variant: self.0.saturating_add(other)
add_T_saturating(self, other) == SerialNumber(SaturatingAdd(self[1], other))
\* Add<$T> for SerialNumber<$T>
add_T(self, other) == SerialNumber(WrappingAdd(self[1], other))
\* Add<SerialNumber<$T>> for $T
T_add(self, other) == add_T(other, self)

\* AddAssign for SerialNumber<$T>: the new value of *self
add_assign(self, other) == SerialNumber(WrappingAdd(self[1], other[1]))
\* variant: *self = SerialNumber(self.0.saturating_add(other))
add_assign_T_saturating(self, other) == SerialNumber(SaturatingAdd(self[1], other))
\* AddAssign<$T> for SerialNumber<$T>: the new value of *self
add_assign_T(self, other) == SerialNumber(WrappingAdd(self[1], other))

\* variant: (x - y) <= uint_half!($BITS)
DiffLeHalf(x, y, BITS) ==
    LET d == UintSub(x, y)
        h == uint_half(BITS)
    IN  [val |-> ~UintGt(d.val, h.val), overflow |-> d.overflow \/ h.overflow]
\* (x - y) < uint_half!($BITS) and (x - y) > uint_half!($BITS)
DiffLtHalf(x, y, BITS) ==
    LET d == UintSub(x, y)
        h == uint_half(BITS)
    IN  [val |-> UintLt(d.val, h.val), overflow |-> d.overflow \/ h.overflow]
\* variant: (x - y) >= uint_half!($BITS)
DiffGeHalf(x, y, BITS) ==
    LET d == UintSub(x, y)
        h == uint_half(BITS)
    IN  [val |-> ~UintLt(d.val, h.val), overflow |-> d.overflow \/ h.overflow]
DiffGtHalf(x, y, BITS) ==
    LET d == UintSub(x, y)
        h == uint_half(BITS)
    IN  [val |-> UintGt(d.val, h.val), overflow |-> d.overflow \/ h.overflow]

\* variant: the plain order of the raw values, without wraparound
partial_cmp_numeric(self, other, BITS) ==
    IF self[1] = other[1] THEN Checked(Some("Equal"))
    ELSE IF UintLt(self[1], other[1]) THEN Checked(Some("Less"))
    ELSE Checked(Some("Greater"))
\* PartialOrd for SerialNumber<$T>: the checked value [val, overflow] of
\* partial_cmp, val an Option<Ordering>
partial_cmp(self, other, BITS) ==
    LET s == self[1]
        o == other[1]
        less == OrElse(AndThen(Checked(UintLt(s, o)), DiffLtHalf(o, s, BITS)),
                       AndThen(Checked(UintGt(s, o)), DiffGtHalf(s, o, BITS)))
        greater == OrElse(AndThen(Checked(UintLt(s, o)), DiffGtHalf(o, s, BITS)),
                          AndThen(Checked(UintGt(s, o)), DiffLtHalf(s, o, BITS)))
    IN  IF s = o THEN Checked(Some("Equal"))
        ELSE IF less.val THEN [val |-> Some("Less"), overflow |-> less.overflow]
        ELSE IF greater.val
             THEN [val |-> Some("Greater"), overflow |-> less.overflow \/ greater.overflow]
        ELSE [val |-> None, overflow |-> less.overflow \/ greater.overflow]
\* PartialOrd<$T> for SerialNumber<$T>
partial_cmp_T(self, other, BITS) == partial_cmp(self, SerialNumber(other), BITS)
\* variant: other.partial_cmp(self) returned without reverse()
T_partial_cmp_unreversed(self, other, BITS) == partial_cmp_T(other, self, BITS)
\* PartialOrd<SerialNumber<$T>> for $T
T_partial_cmp(self, other, BITS) ==
    LET r == partial_cmp_T(other, self, BITS)
    IN  IF r.val # None
        THEN [val |-> Some(reverse(r.val[1])), overflow |-> r.overflow]
        ELSE [val |-> None, overflow |-> r.overflow]

\* #[derive(PartialEq)] on SerialNumber<T>
eq(self, other) == self[1] = other[1]
\* variant: equality derived from the order: neither less nor greater
eq_T_by_order(self, other) ==
    partial_cmp_T(self, other, 8 * Len(other)).val \notin {Some("Less"), Some("Greater")}
\* PartialEq<$T> for SerialNumber<$T>
eq_T(self, other) == eq(self, SerialNumber(other))
\* PartialEq<SerialNumber<$T>> for $T
T_eq(self, other) == eq_T(other, self)

\* what a caller can observe of a checked value: the value, or a panic
\* in a build with overflow checks when the evaluation overflowed
Outcomes(r) == IF r.overflow THEN {Panic, r.val} ELSE {r.val}

\* -------------------------------------------------------------- the state
VARIABLES
    bits,       \* the width $BITS of the instantiation in use
    a, b, c,    \* raw integers of type $T handed to the library
    na, nb, nc, \* the mathematical integers that a, b, c hold at the start
    s,          \* a binding `let mut s: SerialNumber<$T>`, target of +=
    prev,       \* the value of s before the last +=
    total,      \* na plus every operand added to s so far, not reduced
    steps,      \* the number of += applied to s
    op,         \* the last operation called
    res,        \* its result
    fault,      \* whether its evaluation overflowed
    cmps        \* SpecTriple: the outcomes of a?b, b?c and a?c so far

vars == <<bits, a, b, c, na, nb, nc, s, prev, total, steps, op, res, fault, cmps>>

Pending == <<"pending">>
NoCmps == [p \in {"ab", "bc", "ac"} |-> Pending]

\* ------------------------------------------- Spec: one call on a pair
\* the operands of a run of Spec: a pair of inputs of one width
Init ==
    /\ bits \in Widths
    /\ na \in Inputs(bits)
    /\ nb \in Inputs(bits)
    /\ nc = na
    /\ a = Enc(na, bits)
    /\ b = Enc(nb, bits)
    /\ c = a
    /\ s = SerialNumber(a)
    /\ prev = s
    /\ total = na
    /\ steps = 0
    /\ op = "init"
    /\ res = <<>>
    /\ fault = FALSE
    /\ cmps = NoCmps

Operands == <<bits, a, b, c, na, nb, nc>>
Binding == <<s, prev, total, steps>>

\* A caller calls one operation on its operands and looks at the result.
\* an operation that cannot overflow returns v
Return(name, v) ==
    /\ op = "init"
    /\ op' = name
    /\ res' = v
    /\ fault' = FALSE
    /\ UNCHANGED <<Operands, Binding, cmps>>
\* an operation with the checked value r returns or panics
ReturnChecked(name, r) ==
    /\ op = "init"
    /\ op' = name
    /\ res' \in Outcomes(r)
    /\ fault' = r.overflow
    /\ UNCHANGED <<Operands, Binding, cmps>>
\* s += ...: the binding s takes the value v
Rebind(name, v) ==
    /\ op = "init"
    /\ steps < MaxSteps
    /\ op' = name
    /\ s' = v
    /\ prev' = s
    /\ total' = NumAdd(total, nb)
    /\ steps' = steps + 1
    /\ res' = <<>>
    /\ fault' = FALSE
    /\ UNCHANGED <<Operands, cmps>>

From == Return("from", from(a))
Into == Return("into", into(SerialNumber(a)))
Add == Return("add", add(SerialNumber(a), SerialNumber(b)))
AddT == Return("add_T", add_T(SerialNumber(a), b))
TAdd == Return("T_add", T_add(a, SerialNumber(b)))
AddAssign == Rebind("add_assign", add_assign(s, SerialNumber(b)))
AddAssignT == Rebind("add_assign_T", add_assign_T(s, b))
Eq == Return("eq", eq(SerialNumber(a), SerialNumber(b)))
EqT == Return("eq_T", eq_T(SerialNumber(a), b))
TEq == Return("T_eq", T_eq(a, SerialNumber(b)))
PartialCmp == ReturnChecked("partial_cmp", partial_cmp(SerialNumber(a), SerialNumber(b), bits))
PartialCmpT == ReturnChecked("partial_cmp_T", partial_cmp_T(SerialNumber(a), b, bits))
TPartialCmp == ReturnChecked("T_partial_cmp", T_partial_cmp(a, SerialNumber(b), bits))

Next ==
    \/ From \/ Into
    \/ Add \/ AddT \/ TAdd
    \/ AddAssign \/ AddAssignT
    \/ Eq \/ EqT \/ TEq
    \/ PartialCmp \/ PartialCmpT \/ TPartialCmp

Spec == Init /\ [][Next]_vars

\* ------------------------------- SpecAssign: sequences of s += operand
SeqHi(W) == IF W = 8 THEN {0, 1, 3, 4, 128, 254, 255} ELSE {0, 128, 256}
SeqInputs(W) == {n \in Inputs(W) : n.hi \in SeqHi(W)}

InitAssign ==
    /\ bits \in Widths
    /\ na \in SeqInputs(bits)
    /\ nb \in SeqInputs(bits)
    /\ nc = na
    /\ a = Enc(na, bits)
    /\ b = Enc(nb, bits)
    /\ c = a
    /\ s = SerialNumber(a)
    /\ prev = s
    /\ total = na
    /\ steps = 0
    /\ op = "init"
    /\ res = <<>>
    /\ fault = FALSE
    /\ cmps = NoCmps

\* the caller takes another operand for the next +=
NextOperand ==
    /\ op \in {"add_assign", "add_assign_T"}
    /\ steps < MaxSteps
    /\ nb' \in SeqInputs(bits)
    /\ b' = Enc(nb', bits)
    /\ op' = "init"
    /\ res' = <<>>
    /\ fault' = FALSE
    /\ UNCHANGED <<bits, a, c, na, nc, Binding, cmps>>

NextAssign == AddAssign \/ AddAssignT \/ NextOperand

SpecAssign == InitAssign /\ [][NextAssign]_vars

\* ------------------------- SpecTriple: the three comparisons of a triple
TripleHi == {0, 64, 100, 128, 200}
TripleInputs(W) == {n \in Inputs(W) : n.hi \in TripleHi}

InitTriple ==
    /\ bits \in Widths
    /\ na \in TripleInputs(bits)
    /\ nb \in TripleInputs(bits)
    /\ nc \in TripleInputs(bits)
    /\ a = Enc(na, bits)
    /\ b = Enc(nb, bits)
    /\ c = Enc(nc, bits)
    /\ s = SerialNumber(a)
    /\ prev = s
    /\ total = na
    /\ steps = 0
    /\ op = "init"
    /\ res = <<>>
    /\ fault = FALSE
    /\ cmps = NoCmps

\* x.partial_cmp(&y) for the pair p of the triple
Compare(p, x, y) ==
    /\ cmps[p] = Pending
    /\ LET r == partial_cmp(SerialNumber(x), SerialNumber(y), bits)
       IN  /\ res' \in Outcomes(r)
           /\ fault' = r.overflow
    /\ cmps' = [cmps EXCEPT ![p] = res']
    /\ op' = "partial_cmp"
    /\ UNCHANGED <<Operands, Binding>>

CompareAB == Compare("ab", a, b)
CompareBC == Compare("bc", b, c)
CompareAC == Compare("ac", a, c)

NextTriple == CompareAB \/ CompareBC \/ CompareAC

SpecTriple == InitTriple /\ [][NextTriple]_vars

\* ------------------------------------------------------------ the claims
CmpOps == {"partial_cmp", "partial_cmp_T", "T_partial_cmp"}
AddOps == {"add", "add_T", "T_add"}
EqOps == {"eq", "eq_T", "T_eq"}
AssignOps == {"add_assign", "add_assign_T"}
Outcome == {Some("Less"), Some("Equal"), Some("Greater"), None}

\* the comparison algorithm of RFC 1982 on the integers x and y
RefCompare(x, y) ==
    IF x = y THEN Some("Equal")
    ELSE IF NumLt(x, y)
         THEN LET d == NumSub(y, x)
              IN  IF NumLt(d, NumHalf) THEN Some("Less")
                  ELSE IF NumLt(NumHalf, d) THEN Some("Greater")
                  ELSE None
         ELSE LET d == NumSub(x, y)
              IN  IF NumLt(NumHalf, d) THEN Some("Less")
                  ELSE IF NumLt(d, NumHalf) THEN Some("Greater")
                  ELSE None
\* (y - x) mod 2^W: the distance from x forward to y
Forward(x, y) == NumMod(NumAdd(NumSub(y, x), NumModulus))

\* C1: comparing the serial numbers of two raw values returns exactly the
\* outcome of the RFC 1982 algorithm with HALF = 2^(W-1), which is one of
\* Less, Equal, Greater and Undefined.
C1_CompareIsRfc1982 ==
    op = "partial_cmp" => res \in Outcome /\ res = RefCompare(na, nb)
C1_Witness ==
    /\ op = "partial_cmp" /\ bits = 64
    /\ NumLt(nb, na) /\ NumLt(NumHalf, NumSub(na, nb))
    /\ res = Some("Less")

\* C2: a comparison is Undefined if and only if the two values are exactly
\* HALF apart, forwards and backwards; in particular a compared with
\* a + HALF is Undefined.
C2_UndefinedIffHalfApart ==
    op \in CmpOps =>
        /\ res = None <=> (Forward(na, nb) = NumHalf /\ Forward(nb, na) = NumHalf)
        /\ b = into(add_T(from(a), uint_half(bits).val)) => res = None
C2_Witness ==
    /\ op = "partial_cmp" /\ bits = 8
    /\ na = Num(127, 0) /\ nb = Num(255, 0)
    /\ res = None

\* the outcome for a value that lies d ahead of the other one
OutcomeAhead(d) ==
    IF d = NumZero THEN Some("Equal")
    ELSE IF NumLt(d, NumHalf) THEN Some("Greater")
    ELSE IF NumLt(NumHalf, d) THEN Some("Less")
    ELSE None
\* C3: a is Greater than b exactly when a is b plus a nonzero distance
\* below HALF, wrapping included, and Less when the distance is above HALF
\* or when b is a plus such a distance: the outcome depends only on
\* (a - b) mod 2^W.
C3_AheadWithinHalf ==
    op \in CmpOps =>
        LET d == Forward(nb, na)
        IN  /\ a = into(add_T(from(b), Enc(d, bits)))
            /\ res = Some("Greater") <=> (NumLt(NumZero, d) /\ NumLt(d, NumHalf))
            /\ NumLt(NumHalf, d) => res = Some("Less")
            /\ (NumLt(NumZero, Forward(na, nb)) /\ NumLt(Forward(na, nb), NumHalf)) =>
                  res = Some("Less")
            /\ res = OutcomeAhead(d)
C3_Witness ==
    /\ op = "partial_cmp_T" /\ bits = 32
    /\ na = NumZero /\ nb = NumMax
    /\ res = Some("Greater")

\* Less and Greater exchanged, Equal and Undefined kept
ReverseOutcome(r) == IF r = None THEN None ELSE Some(reverse(r[1]))
\* C4: compare(a, b) is the reversal of compare(b, a) in each of the three
\* operand forms, and the three forms give the same outcome.
C4_Reversal ==
    op \in CmpOps =>
        /\ res = ReverseOutcome(partial_cmp(SerialNumber(b), SerialNumber(a), bits).val)
        /\ res = ReverseOutcome(partial_cmp_T(SerialNumber(b), a, bits).val)
        /\ res = ReverseOutcome(T_partial_cmp(b, SerialNumber(a), bits).val)
        /\ res = partial_cmp(SerialNumber(a), SerialNumber(b), bits).val
        /\ res = partial_cmp_T(SerialNumber(a), b, bits).val
        /\ res = T_partial_cmp(a, SerialNumber(b), bits).val
C4_Witness ==
    /\ op = "T_partial_cmp" /\ bits = 16
    /\ na = NumMax /\ nb = NumZero
    /\ res = Some("Less")

\* C5: in each operand form a + b is the serial number of (a + b) mod 2^W,
\* and every value produced, s after += included, is in the type's range.
C5_AddWraps ==
    /\ IsUint(into(s), bits)
    /\ op \in AddOps =>
            /\ res = from(Enc(NumMod(NumAdd(na, nb)), bits))
            /\ IsUint(into(res), bits)
C5_Witness ==
    /\ op = "add" /\ bits = 8
    /\ na = Num(254, 0) /\ nb = Num(4, 0)
    /\ res = SerialNumber(<<2>>)

\* C6: addition is commutative and gives the same value in the three
\* operand forms.
C6_AddCommutes ==
    op \in AddOps =>
        /\ res = add(SerialNumber(a), SerialNumber(b))
        /\ res = add(SerialNumber(b), SerialNumber(a))
        /\ res = add_T(SerialNumber(a), b)
        /\ res = add_T(SerialNumber(b), a)
        /\ res = T_add(a, SerialNumber(b))
        /\ res = T_add(b, SerialNumber(a))
C6_Witness ==
    /\ op = "T_add" /\ bits = 64
    /\ na = NumMax /\ nb = Num(0, 1)
    /\ res = SerialNumber(Enc(NumZero, 64))

\* C7: after s += b, with b a serial number or raw, s is add(s_old, b);
\* after a sequence of them s is (a0 + b1 + ... + bk) mod 2^W, and the
\* operands are unchanged.
C7_AddAssignIsAdd ==
    op \in AssignOps =>
        /\ s = add(prev, SerialNumber(b))
        /\ s = add_T(prev, b)
        /\ s = from(Enc(NumMod(total), bits))
        /\ a = Enc(na, bits) /\ b = Enc(nb, bits)
C7_Witness ==
    /\ op = "add_assign_T" /\ steps = 2
    /\ ~NumLt(total, NumModulus)
    /\ s # prev

AllCompared == \A p \in DOMAIN cmps : cmps[p] # Pending
\* C8: the order is not transitive: 0 < 64 and 64 < 128 but 0 against 128
\* is Undefined, and 0 < 100, 100 < 200 but 0 > 200 (for 8 bits; the same
\* multiples of 2^(W-8) for the wider types).
C8_NotTransitive ==
    AllCompared =>
        /\ (na = Num(0, 0) /\ nb = Num(64, 0) /\ nc = Num(128, 0)) =>
              cmps = [ab |-> Some("Less"), bc |-> Some("Less"), ac |-> None]
        /\ (na = Num(0, 0) /\ nb = Num(100, 0) /\ nc = Num(200, 0)) =>
              cmps = [ab |-> Some("Less"), bc |-> Some("Less"), ac |-> Some("Greater")]
C8_Witness ==
    /\ bits = 8
    /\ a = <<0>> /\ b = <<64>> /\ c = <<128>>
    /\ cmps["ab"] = Some("Less") /\ cmps["bc"] = Some("Less")
    /\ cmps["ac"] \in Outcome \ {Some("Less")}

\* C9: no operation overflows or panics, and 1 << (W-1) is 2^(W-1) without
\* overflow.
C9_NoFault ==
    /\ fault = FALSE
    /\ uint_half(bits) = Checked(Enc(NumHalf, bits))
    /\ op \in CmpOps => res \in Outcome
C9_Witness ==
    /\ op = "partial_cmp" /\ bits = 64
    /\ UintGt(a, b)
    /\ res \in Outcome /\ fault = FALSE

\* C10: in each operand form equality is equality of the raw values; it is
\* reflexive and symmetric, and it holds exactly when the comparison is
\* Equal.
C10_EqIsRawEquality ==
    op \in EqOps =>
        /\ res = (na = nb)
        /\ res = (a = b)
        /\ res = eq(SerialNumber(b), SerialNumber(a))
        /\ res = eq_T(SerialNumber(b), a)
        /\ res = T_eq(b, SerialNumber(a))
        /\ eq(SerialNumber(a), SerialNumber(a))
        /\ eq_T(SerialNumber(a), a)
        /\ T_eq(a, SerialNumber(a))
        /\ res = (partial_cmp(SerialNumber(a), SerialNumber(b), bits).val = Some("Equal"))
C10_Witness ==
    /\ op = "T_eq" /\ bits = 64
    /\ na = NumMax /\ nb = NumMax
    /\ res = TRUE

====
